---------------------------- MODULE Spec2Model ----------------------------
(***************************************************************************)
(* CloudGameController (src/module/game/cloud.py) and the BrowserInput     *)
(* callers (src/module/automation/browser_input.py).                       *)
(*                                                                         *)
(* Threads: the client threads that call the control surface, the single   *)
(* worker thread ("BrowserAutomationThread") that drains playwright_th_que,*)
(* and the "SavingLocalStorageTask" threads _create_browser starts.        *)
(* Thread ids are integers: 0 is the worker, 1..NClients the clients, -g   *)
(* the persistence thread in place g of lsThreads.                         *)
(***************************************************************************)
EXTENDS Integers, Sequences, FiniteSets, TLC

\* ------------------------------------------------------------------ bounds
NClients == 2
MaxCalls == 2
MaxExports == 1
MaxRounds == 2

\* ------------------------------------------------------- program constants
MAX_RETRIES == 3

Worker == 0
Clients == 1..NClients
LsTid(g) == 0 - g

VARIABLES
    cfg,                  \* browser_headless_enable, browser_persistent_enable
    queue,                \* playwright_th_que: call ids, oldest first
    calls,                \* every PendingCall ever put: func, submitting thread, its future, ghost outcome
    puts,                 \* ghost: how many calls the client threads / the persistence threads have made
    execLog,              \* ghost: call ids in the order the worker started executing them
    cpc, ccall,           \* per client: position, the call it waits on
    wpc, wcall, wnest,    \* worker: position, the call being executed, the call it submitted itself
    wmode, wafter,        \* worker: headless argument of the pending _create_browser, where to go after it
    playwright, browser, context, page, client, hwnd,
    liveMode,             \* ghost: the headless argument the live browser was launched with
    stop_saving_ls_event, \* "None", "clear" or "set": the Event the controller currently holds
    saving_ls_thread,     \* 0 (None) or the index in lsThreads of the thread the controller holds
    lsThreads,            \* the persistence threads: position, pending call, whether it has written
    lsFile,               \* LOCAL_STORAGE_PATH: "absent", or "saved" once a thread has written it
    tornDown,             \* ghost: the persistence threads a returned _stop_game was to join
    reloads, retry,       \* ghost: the page.reload() calls and the timed-out waits of the latest
    waitRes,              \*   _refresh_page, and how its wait ended ("none" once the worker has moved on)
    startStat,            \* per running _start_game: browser_cookies_enable as it reads it, and
                          \*   ghost: relaunches, login observations, cookie saves; and, from the
                          \*   return of _start_game / _stop_game to the set of the event, how it ended
    handleUsers           \* ghost: the kinds of thread that have invoked a method on a playwright handle

serVars  == <<queue, calls, puts, execLog>>
cliVars  == <<cpc, ccall>>
wVars    == <<wpc, wcall, wnest, wmode, wafter>>
hVars    == <<playwright, browser, context, page, client, hwnd, liveMode>>
lsVars   == <<stop_saving_ls_event, saving_ls_thread, lsThreads, lsFile, tornDown>>
lifeVars == <<reloads, retry, waitRes, startStat>>
vars == <<cfg, serVars, cliVars, wVars, hVars, lsVars, lifeVars, handleUsers>>

\* ----------------------------------------------------------------- values
NoVal == [val |-> "unset", of |-> 0]
NoOut == [kind |-> "none", val |-> "unset", of |-> 0]
Ret(v, i) == [kind |-> "ret", val |-> v, of |-> i]
Exc(i) == [kind |-> "exc", val |-> "error", of |-> i]

\* future = {"event": threading.Event()}; the tuple put on the queue
NewCall(func, th) ==
    [func |-> func, by |-> th, event |-> FALSE, result |-> NoVal,
     exception |-> NoVal, out |-> NoOut, sets |-> 0]

\* how an operation ended: whether an exception reached _start_game's except
\* branch and what _try_dump_page did; what the page showed after the enter
\* click and whether the queue-ceiling wait was made; whether _stop_game found
\* the controller stopped and whether it changed any of its fields
NoEnd ==
    [raised |-> FALSE, dump |-> "none", seen |-> "none", waited |-> FALSE,
     stopped |-> FALSE, changed |-> FALSE]

NewStat ==
    [cookies |-> FALSE, toHeadful |-> 0, toHeadless |-> 0, rounds |-> 0,
     last |-> "none", flapped |-> FALSE, cookieSaves |-> 0, end |-> NoEnd]

Ended(e) == [NewStat EXCEPT !.end = e]

\* once run_in_playwright_thread has returned nothing refers to its future any more
Collected(fut) ==
    [func |-> "collected", by |-> Worker,
     event |-> TRUE, result |-> NoVal, exception |-> NoVal, out |-> NoOut, sets |-> 1]

Range(s) == {s[i] : i \in 1..Len(s)}

\* ------------------------------------------------------------- serializer
\* MaxCalls bounds the calls the client threads make, MaxExports the calls the
\* persistence threads make.  The calls the worker makes itself, inside an
\* operation, are bounded by those.  A persistence thread inside its loop body
\* is committed to a put it has not made yet and holds a reservation, so that no
\* thread is ever stopped half-way by the bound.
Reserved ==
    Cardinality({g \in 1..Len(lsThreads) :
                    lsThreads[g].pc \in {"is_closed", "submit"}})

Free(n) == puts.clients + n <= MaxCalls

FreeExport == puts.exports + Reserved < MaxExports

\* self.playwright_th_que.put((func, args, kwargs, future))
Put(th, func) ==
    /\ calls' = Append(calls, NewCall(func, th))
    /\ queue' = Append(queue, Len(calls) + 1)
    /\ puts' = CASE th \in Clients -> [puts EXCEPT !.clients = @ + 1]
                 [] th = Worker -> puts
                 [] OTHER -> [puts EXCEPT !.exports = @ + 1]

\* self.playwright_th_que.get(): queue.Queue is FIFO
QueueGet_LIFO(q) == [item |-> q[Len(q)], rest |-> SubSeq(q, 1, Len(q) - 1)]
QueueGet(q) == [item |-> Head(q), rest |-> Tail(q)]

\* try: future["result"] = func(...)  except Exception as e: future["exception"] = e
Recorded_Swallow(fut, o) ==
    IF o.kind = "ret" THEN [fut EXCEPT !.result = [val |-> o.val, of |-> o.of]]
    ELSE fut
Recorded(fut, o) ==
    IF o.kind = "ret" THEN [fut EXCEPT !.result = [val |-> o.val, of |-> o.of]]
    ELSE [fut EXCEPT !.exception = [val |-> o.val, of |-> o.of]]

\* if "exception" in future: raise future["exception"];  return future["result"]
\* (future["result"] of a future that holds neither raises KeyError)
CallerOutcome_NoRaise(fut) ==
    [kind |-> "ret", val |-> fut.result.val, of |-> fut.result.of]
CallerOutcome(fut) ==
    IF fut.exception # NoVal
      THEN [kind |-> "exc", val |-> fut.exception.val, of |-> fut.exception.of]
    ELSE IF fut.result # NoVal
      THEN [kind |-> "ret", val |-> fut.result.val, of |-> fut.result.of]
    ELSE [kind |-> "exc", val |-> "KeyError", of |-> 0]

\* while True: the loop has no break and the try catches the operation's failure
AfterSet_Die(kind) == IF kind = "exc" THEN "dead" ELSE "get"
AfterSet(kind) == "get"

\* the first position of each operation the worker can be handed
Entry(func) ==
    CASE func \in {"_start_game", "_stop_game"} -> "sg_set"
      [] func = "_take_screenshot" -> "shot"
      [] func \in {"mouse_down", "mouse_up"} -> "bi_mouse"
      [] func \in {"page.mouse.down", "page.mouse.up", "page.evaluate"} -> "page_op"

\* the worker's func(*args, **kwargs) returned or raised: lines 57-60
Finish(o) ==
    /\ calls' = [calls EXCEPT ![wcall] = Recorded([@ EXCEPT !.out = o], o)]
    /\ wpc' = "set"

\* the call a thread is blocked on in future["event"].wait(), 0 if none
WaitingOn(th) ==
    IF th = Worker THEN (IF wpc = "nested_wait" THEN wnest ELSE 0)
    ELSE IF th \in Clients
      THEN (IF cpc[th] \in {"wait", "pm_down"} THEN ccall[th] ELSE 0)
    ELSE (IF lsThreads[0 - th].pc = "wait" THEN lsThreads[0 - th].call ELSE 0)

Threads == Clients \cup {Worker} \cup {LsTid(g) : g \in 1..Len(lsThreads)}

\* ------------------------------------------------------------------- Init
\* __init__: every handle None, no event, no thread, an empty queue, the worker started
Init ==
    /\ cfg \in [headless : BOOLEAN, persistent : BOOLEAN]
    /\ queue = <<>> /\ calls = <<>> /\ execLog = <<>>
    /\ puts = [clients |-> 0, exports |-> 0]
    /\ cpc = [t \in Clients |-> "idle"]
    /\ ccall = [t \in Clients |-> 0]
    /\ wpc = "get" /\ wcall = 0 /\ wnest = 0
    /\ wmode = FALSE /\ wafter = "none"
    /\ playwright = "None" /\ browser = "None" /\ context = "None"
    /\ page = "None" /\ client = "None" /\ hwnd = "None" /\ liveMode = "none"
    /\ stop_saving_ls_event = "None" /\ saving_ls_thread = 0
    /\ lsThreads = <<>> /\ lsFile = "absent" /\ tornDown = {}
    /\ reloads = 0 /\ retry = 0 /\ waitRes = "none" /\ startStat = NewStat
    /\ handleUsers = {}

\* ---------------------------------------------------------------- clients
ApiFunc(api) ==
    CASE api = "start_game" -> "_start_game"
      [] api = "stop_game" -> "_stop_game"
      [] api = "take_screenshot" -> "_take_screenshot"

\* run_in_playwright_thread up to future["event"].wait(), on a client thread.
\* The client threads are interchangeable and hold no state between two calls:
\* of the threads that are free to make a call, the first one makes it.
ClientPut(t, func, pc, n) ==
    /\ Free(n)
    /\ cpc[t] = "idle" => \A u \in 1..(t - 1) : cpc[u] # "idle"
    /\ Put(t, func)
    /\ cpc' = [cpc EXCEPT ![t] = pc]
    /\ ccall' = [ccall EXCEPT ![t] = Len(calls) + 1]
    /\ UNCHANGED <<cfg, execLog, wVars, hVars, lsVars, lifeVars, handleUsers>>

\* start_game / stop_game / take_screenshot
ClientCall(t, api) ==
    /\ cpc[t] = "idle"
    /\ ClientPut(t, ApiFunc(api), "wait", 1)

\* BrowserInput.mouse_down from a client thread: self.cloud_game.page.mouse.down is
\* looked up on the caller's thread (an attribute lookup, no call on the handle);
\* with page None the AttributeError is caught and logged and nothing is submitted
ClientMouseDown(t) ==
    /\ cpc[t] = "idle"
    /\ page # "None"
    /\ ClientPut(t, "page.mouse.down", "wait", 1)

\* BrowserInput.press_mouse: self.run_action(self.mouse_down)
ClientPressMouse(t) ==
    /\ cpc[t] = "idle"
    /\ ClientPut(t, "mouse_down", "pm_down", 1)

\* BrowserInput.press_mouse after time.sleep(wait_time): self.run_action(self.mouse_up)
ClientPressMouseUp(t) ==
    /\ cpc[t] = "pm_sleep"
    /\ ClientPut(t, "mouse_up", "wait", 1)

\* run_in_playwright_thread after future["event"].wait() returned, on whichever
\* thread called it: a client, a persistence thread (_saving_local_storage_task
\* goes on to write the file, or to its except branch), or the worker itself
\* inside BrowserInput.mouse_down / mouse_up (which logs and returns None)
RunReturn(th) ==
    /\ WaitingOn(th) # 0
    /\ calls[WaitingOn(th)].event
    /\ LET c == WaitingOn(th)
           o == CallerOutcome(calls[c])
           done == [calls EXCEPT ![c] = Collected(@)]
       IN CASE th \in Clients ->
              /\ cpc' = [cpc EXCEPT ![th] =
                           IF cpc[th] = "pm_down" /\ o.kind = "ret"
                             THEN "pm_sleep" ELSE "idle"]
              /\ ccall' = [ccall EXCEPT ![th] = 0]
              /\ calls' = done
              /\ UNCHANGED <<queue, puts, execLog, wVars, lsVars>>
         [] th = Worker ->
              /\ calls' = [done EXCEPT ![wcall] =
                             Recorded([@ EXCEPT !.out = Ret("None", wcall)],
                                      Ret("None", wcall))]
              /\ wpc' = "set"
              /\ wnest' = 0
              /\ UNCHANGED <<queue, puts, execLog, cliVars, wcall, wmode, wafter, lsVars>>
         [] OTHER ->
              /\ lsThreads' = [lsThreads EXCEPT
                                ![0 - th].pc = IF o.kind = "ret" THEN "write" ELSE "check",
                                ![0 - th].call = 0]
              /\ calls' = done
              /\ UNCHANGED <<queue, puts, execLog, cliVars, wVars, stop_saving_ls_event,
                             saving_ls_thread, lsFile, tornDown>>
    /\ UNCHANGED <<cfg, hVars, lifeVars, handleUsers>>

\* ----------------------------------------------------------------- worker
\* func, args, kwargs, future = self.playwright_th_que.get().
\* self.cfg.browser_cookies_enable is read where it is used (lines 141, 367,
\* 371); nothing but the saving of the cookies depends on it, and a
\* _start_game is taken to read the same value throughout.
WorkerGet ==
    /\ wpc = "get"
    /\ queue # <<>>
    /\ LET g == QueueGet(queue) IN
        /\ queue' = g.rest
        /\ wcall' = g.item
        /\ execLog' = Append(execLog, g.item)
        /\ wpc' = Entry(calls[g.item].func)
        /\ IF calls[g.item].func = "_start_game"
             THEN /\ wmode' = cfg.headless /\ wafter' = "login_outer"
                  /\ \E c \in BOOLEAN : startStat' = [NewStat EXCEPT !.cookies = c]
             ELSE UNCHANGED <<wmode, wafter, startStat>>
    /\ UNCHANGED <<cfg, calls, puts, cliVars, wnest, hVars, lsVars, reloads, retry,
                   waitRes, handleUsers>>

\* finally: future["event"].set(), and back to the top of the loop
WorkerSetEvent ==
    /\ wpc = "set"
    /\ calls' = [calls EXCEPT ![wcall].event = TRUE, ![wcall].sets = @ + 1]
    /\ wpc' = AfterSet(calls[wcall].out.kind)
    /\ wcall' = 0 /\ wmode' = FALSE /\ wafter' = "none"
    /\ reloads' = 0 /\ retry' = 0 /\ waitRes' = "none" /\ startStat' = NewStat
    /\ UNCHANGED <<cfg, queue, puts, execLog, cliVars, wnest, hVars, lsVars,
                   handleUsers>>

\* a bound page method handed over by a caller: page.mouse.down / up, page.evaluate.
\* It runs against the page object it was bound to and raises once that is gone.
PageOp ==
    /\ wpc = "page_op"
    /\ \E ok \in {TRUE, FALSE} :
         /\ ok => page = "open"
         /\ Finish(IF ok THEN Ret(IF calls[wcall].func = "page.evaluate"
                                    THEN "json" ELSE "None", wcall)
                         ELSE Exc(wcall))
    /\ handleUsers' = handleUsers \cup {"worker"}
    /\ UNCHANGED <<cfg, queue, puts, execLog, cliVars, wcall, wnest, wmode, wafter,
                   hVars, lsVars, lifeVars>>

\* BrowserInput.mouse_down / mouse_up run as an operation (press_mouse hands the
\* bound method over): try: self.run_action(self.cloud_game.page.mouse.down)
\* except Exception: log.  With page None the lookup raises and is caught.
BiMouse ==
    /\ wpc = "bi_mouse"
    /\ IF page = "None"
         THEN /\ Finish(Ret("None", wcall))
              /\ UNCHANGED <<queue, puts, wnest>>
         ELSE /\ Put(Worker, IF calls[wcall].func = "mouse_down"
                               THEN "page.mouse.down" ELSE "page.mouse.up")
              /\ wnest' = Len(calls) + 1
              /\ wpc' = "nested_wait"
    /\ UNCHANGED <<cfg, execLog, cliVars, wcall, wmode, wafter, hVars, lsVars,
                   lifeVars, handleUsers>>

\* get_window_handle: the values self.hwnd can hold afterwards.  A truthy cached
\* hwnd is returned while the page is open; a closed page gives 0 without touching
\* the cache; otherwise the process list is searched and the result (a window of
\* the live browser, or 0) is cached: only visible windows count, and a headless
\* browser has none.  With page None the call raises.
HwndAfterGet(pg, h, headless) ==
    IF pg = "open" /\ h \in {"None", "zero"}
      THEN (IF headless THEN {"zero"} ELSE {"cur", "zero"})
      ELSE {h}

\* get_window_handle: the value it returns, from the page, self.hwnd before the
\* call and self.hwnd after it (lines 397-400, 412-413, 422-424)
HwndReturned(pg, before, after) ==
    IF pg = "open" /\ before \notin {"None", "zero"} THEN before
    ELSE IF pg = "closed" THEN "zero"
    ELSE after

\* _take_screenshot
Shot ==
    /\ wpc = "shot"
    /\ \E ok \in {TRUE, FALSE} :
         /\ ok => page = "open"
         /\ Finish(IF ok THEN Ret("bytes", wcall) ELSE Exc(wcall))
    /\ hwnd' \in (IF cfg.headless THEN {hwnd}
                  ELSE HwndAfterGet(page, hwnd, liveMode = "headless"))
    /\ handleUsers' = IF page = "None" THEN handleUsers ELSE handleUsers \cup {"worker"}
    /\ UNCHANGED <<cfg, queue, puts, execLog, cliVars, wcall, wnest, wmode, wafter,
                   playwright, browser, context, page, client, liveMode, lsVars, lifeVars>>

\* ------------------------------------------------------------- _stop_game
\* if self.saving_ls_thread and self.saving_ls_thread.is_alive(): join()
MustJoin_Never(th, alive) == FALSE
MustJoin(th, alive) == th # 0 /\ alive

LsAlive(g) == g # 0 /\ lsThreads[g].pc # "dead"

\* lines 326-327: if self.stop_saving_ls_event: self.stop_saving_ls_event.set()
StopSet ==
    /\ wpc = "sg_set"
    /\ stop_saving_ls_event' =
          IF stop_saving_ls_event = "None" THEN "None" ELSE "set"
    /\ wpc' = "sg_join"
    /\ UNCHANGED <<cfg, serVars, cliVars, wcall, wnest, wmode, wafter, hVars,
                   saving_ls_thread, lsThreads, lsFile, tornDown, lifeVars, handleUsers>>

\* the controller as __init__ or a _stop_game that ran to its end leaves it
Stopped ==
    /\ playwright = "None" /\ browser = "None" /\ context = "None"
    /\ page = "None" /\ client = "None" /\ hwnd = "None"

\* lines 328-340.  join() returns once the thread has ended (at once when there is
\* no thread or it is not alive); then playwright.stop() and the handles set to
\* None.  When stop() raises, the except branch logs and the assignments are
\* skipped.  _stop_game returns None: to the worker loop (stop_game) or into
\* _create_browser (_start_game, _restart_browser).
StopClose ==
    /\ wpc = "sg_join"
    /\ ~MustJoin(saving_ls_thread, LsAlive(saving_ls_thread))
    /\ \E raised \in {TRUE, FALSE} :
         /\ raised => playwright # "None"
         /\ IF raised
              THEN /\ page' \in (IF page = "None" THEN {page} ELSE {page, "closed"})
                   /\ UNCHANGED <<playwright, browser, context, client, hwnd, liveMode>>
              ELSE /\ playwright' = "None" /\ browser' = "None" /\ context' = "None"
                   /\ page' = "None" /\ client' = "None" /\ hwnd' = "None"
                   /\ liveMode' = "none"
    /\ handleUsers' = IF playwright = "None" THEN handleUsers ELSE handleUsers \cup {"worker"}
    /\ tornDown' = tornDown \cup ({saving_ls_thread} \ {0})
    /\ IF calls[wcall].func = "_stop_game"
         THEN /\ Finish(Ret("None", wcall))
              /\ startStat' = Ended([NoEnd EXCEPT !.stopped = Stopped,
                                                  !.changed = (hVars' # hVars)])
         ELSE wpc' = "cb_start" /\ UNCHANGED <<calls, startStat>>
    /\ UNCHANGED <<cfg, queue, puts, execLog, cliVars, wcall, wnest, wmode, wafter,
                   stop_saving_ls_event, saving_ls_thread, lsThreads, lsFile,
                   reloads, retry, waitRes>>

\* --------------------------------------------------------- _create_browser
\* An exception that leaves _create_browser, _check_login, _click_enter_game or
\* _wait_in_queue is caught by _start_game's except branch (lines 379-382): log,
\* _try_dump_page with every failure of its own swallowed, return False.
\* What startStat holds is over when _start_game returns.

\* _try_dump_page: page.screenshot and page.content inside try / except
\* Exception: pass.  With page None the AttributeError is raised inside the try.
TryDumpPage_Raises(pg, ok) == IF pg = "open" /\ ok THEN "saved" ELSE "raises"
TryDumpPage(pg, ok) == IF pg = "open" /\ ok THEN "saved" ELSE "swallowed"

\* lines 379-382 with the dump done: return False, unless the dump itself raised
Caught(d) == IF d = "raises" THEN Exc(wcall) ELSE Ret("False", wcall)

FailWith(pg, e) ==
    \E ok \in BOOLEAN :
        LET d == TryDumpPage(pg, ok) IN
        /\ Finish(Caught(d))
        /\ startStat' = Ended([e EXCEPT !.raised = TRUE, !.dump = d])

Fail(pg) == FailWith(pg, NoEnd)

\* The threads that have ended are forgotten: a new thread takes the place of
\* one that has ended, or a new place when every thread started so far is alive.
NewSlot ==
    IF \E g \in 1..Len(lsThreads) : lsThreads[g].pc = "dead"
      THEN CHOOSE g \in 1..Len(lsThreads) :
             /\ lsThreads[g].pc = "dead"
             /\ \A h \in 1..(g - 1) : lsThreads[h].pc # "dead"
      ELSE Len(lsThreads) + 1

NewThread == [pc |-> "check", call |-> 0, wrote |-> FALSE]

Started(ths, g) ==
    IF g > Len(ths) THEN Append(ths, NewThread) ELSE [ths EXCEPT ![g] = NewThread]

\* lines 109-123: sync_playwright().start(), then, with browser_persistent_enable,
\* a fresh Event and a fresh started thread
CreateStart ==
    /\ wpc = "cb_start"
    /\ \E ok \in {TRUE, FALSE} :
         IF ok
           THEN /\ playwright' = "set"
                /\ wpc' = "cb_launch"
                /\ UNCHANGED <<calls, startStat>>
                /\ IF cfg.persistent
                     THEN /\ stop_saving_ls_event' = "clear"
                          /\ lsThreads' = Started(lsThreads, NewSlot)
                          /\ saving_ls_thread' = NewSlot
                          /\ tornDown' = tornDown \ {NewSlot}
                     ELSE UNCHANGED <<stop_saving_ls_event, lsThreads, saving_ls_thread,
                                      tornDown>>
           ELSE /\ Fail(page)
                /\ UNCHANGED <<playwright, stop_saving_ls_event, lsThreads, saving_ls_thread,
                               tornDown>>
    /\ UNCHANGED <<cfg, queue, puts, execLog, cliVars, wcall, wnest, wmode, wafter,
                   browser, context, page, client, hwnd, liveMode, lsFile,
                   reloads, retry, waitRes, handleUsers>>

\* for retry in range(self.MAX_RETRIES + 1)
Attempts == MAX_RETRIES + 1

\* if retry > 0: self.page.reload()
ReloadBefore_Always(r) == TRUE
ReloadBefore(r) == r > 0

\* _wait_game_page_loaded from turn r of its loop on, n reloads issued so far.
\* wait_for_function times out in the turns before turn k and ends as `last`
\* ("ready" or "raises") in turn k; k = Attempts is the wait that never succeeds.
RECURSIVE WaitGamePageLoaded(_, _, _, _)
WaitGamePageLoaded(r, n, k, last) ==
    IF r = Attempts
      THEN [res |-> "exhausted", reloads |-> n, timeouts |-> r]
    ELSE LET m == IF ReloadBefore(r) THEN n + 1 ELSE n IN
         IF r < k THEN WaitGamePageLoaded(r + 1, m, k, last)
         ELSE [res |-> last, reloads |-> m, timeouts |-> r]

\* _refresh_page: self.page.reload(); self._wait_game_page_loaded()
RefreshPage(k, last) == WaitGamePageLoaded(0, 1, k, last)

\* lines 125-144: launch, new_context, new_page, new_cdp_session, _full_screen,
\* goto, set_viewport_size, _load_local_storage, _load_cookies, _refresh_page,
\* change_window_title (get_window_handle; its failures are printed).  No other
\* thread's step depends on how far the worker is inside these lines once
\* self.page is assigned, so they are one step.
CreateLaunch ==
    /\ wpc = "cb_launch"
    /\ \E how \in {"launch_raises", "goto_raises", "reload_raises", "refresh"},
          k \in 0..Attempts, last \in {"ready", "raises"} :
         LET w == RefreshPage(k, last)
             h == IF hwnd = "cur" THEN "stale" ELSE hwnd
         IN
         /\ how # "refresh" => k = 0 /\ last = "ready"
         /\ IF how = "launch_raises"
              THEN UNCHANGED <<browser, context, page, client, liveMode>>
              ELSE /\ browser' = "set" /\ context' = "set" /\ page' = "open"
                   /\ client' = "set"
                   /\ liveMode' = IF wmode THEN "headless" ELSE "headful"
         /\ reloads' = CASE how = "refresh" -> w.reloads
                         [] how = "reload_raises" -> 1
                         [] OTHER -> 0
         /\ retry' = IF how = "refresh" THEN w.timeouts ELSE 0
         /\ waitRes' = IF how = "refresh" THEN w.res ELSE "none"
         /\ IF how = "refresh" /\ w.res = "ready"
              THEN /\ hwnd' \in HwndAfterGet("open", h, wmode)
                   /\ wpc' = wafter
                   /\ UNCHANGED <<calls, startStat>>
              ELSE /\ hwnd' = IF how = "launch_raises" THEN hwnd ELSE h
                   /\ Fail(IF how = "launch_raises" THEN page ELSE "open")
    /\ handleUsers' = handleUsers \cup {"worker"}
    /\ UNCHANGED <<cfg, queue, puts, execLog, cliVars, wcall, wnest, wmode, wafter,
                   playwright, lsVars>>

\* ------------------------------------------------------------ _start_game
\* _check_login: True (logged-in marker), False (login iframe), None (neither
\* marker, or the wait timed out); any other playwright error propagates
LoginResults == {"True", "False", "None", "raises"}

Observed(st, r) ==
    [st EXCEPT !.last = r,
               !.flapped = @ \/ (st.last = "True" /\ r # "True")]

\* if self.cfg.browser_headless_enable: self._restart_browser(...)
NeedRelaunch_Always(headless) == TRUE
NeedRelaunch(headless) == headless

\* _save_cookies: context.cookies() and the file write, every failure logged
\* and not propagated; cookieSaves counts the calls
SavedCookies_Skip(st) == st
SavedCookies(st) == [st EXCEPT !.cookieSaves = @ + 1]

\* line 350, the outer `while not self._check_login()` (None is as falsy as
\* False), and lines 351-357 when the loop body is entered.  MaxRounds bounds how
\* often the body is entered.
LoginOuter ==
    /\ wpc = "login_outer"
    /\ \E r \in LoginResults :
         LET st == Observed(startStat, r) IN
         CASE r = "True" ->
                /\ wpc' = "enter"
                /\ startStat' = st
                /\ UNCHANGED <<calls, wmode, wafter>>
           [] r = "raises" ->
                /\ Fail(page)
                /\ UNCHANGED <<wmode, wafter>>
           [] OTHER ->
                /\ startStat.rounds < MaxRounds
                /\ UNCHANGED calls
                /\ IF NeedRelaunch(cfg.headless)
                     THEN /\ startStat' = [st EXCEPT !.rounds = @ + 1, !.toHeadful = @ + 1]
                          /\ wmode' = FALSE
                          /\ wafter' = "login_inner"
                          /\ wpc' = "sg_set"
                     ELSE /\ startStat' = [st EXCEPT !.rounds = @ + 1]
                          /\ wpc' = "login_inner"
                          /\ UNCHANGED <<wmode, wafter>>
    /\ reloads' = 0 /\ retry' = 0 /\ waitRes' = "none"
    /\ handleUsers' = handleUsers \cup {"worker"}
    /\ UNCHANGED <<cfg, queue, puts, execLog, cliVars, wcall, wnest, hVars, lsVars>>

\* lines 360-369: the inner poll `while not self._check_login(): sleep(2)`, and
\* once it sees True the save of the cookies and the relaunch back to headless
LoginInner ==
    /\ wpc = "login_inner"
    /\ \E r \in LoginResults :
         LET st == Observed(startStat, r) IN
         CASE r = "True" ->
                /\ UNCHANGED calls
                /\ IF NeedRelaunch(cfg.headless)
                     THEN /\ startStat' =
                               [(IF st.cookies THEN SavedCookies(st) ELSE st)
                                  EXCEPT !.toHeadless = @ + 1]
                          /\ wmode' = TRUE
                          /\ wafter' = "login_outer"
                          /\ wpc' = "sg_set"
                     ELSE /\ startStat' = st
                          /\ wpc' = "login_outer"
                          /\ UNCHANGED <<wmode, wafter>>
           [] r = "raises" ->
                /\ Fail(page)
                /\ UNCHANGED <<wmode, wafter>>
           [] OTHER ->
                /\ startStat' = st
                /\ UNCHANGED <<calls, wpc, wmode, wafter>>
    /\ reloads' = 0 /\ retry' = 0 /\ waitRes' = "none"
    /\ handleUsers' = handleUsers \cup {"worker"}
    /\ UNCHANGED <<cfg, queue, puts, execLog, cliVars, wcall, wnest, hVars, lsVars>>

\* lines 371-372: if self.cfg.browser_cookies_enable: self._save_cookies()
SaveAtEnter ==
    /\ wpc = "enter"
    /\ wpc' = "click"
    /\ startStat' = IF startStat.cookies THEN SavedCookies(startStat) ELSE startStat
    /\ handleUsers' = handleUsers \cup {"worker"}
    /\ UNCHANGED <<cfg, serVars, cliVars, wcall, wnest, wmode, wafter,
                   hVars, lsVars, reloads, retry, waitRes>>

\* page.wait_for_selector(selector, timeout=...) with the default state: the
\* element once it is there, PlaywrightTimeoutError when it is not there in time
WaitForSelector(present) == IF present THEN "element" ELSE "raises"

\* Python truth of a value: `if x:`, `not x`
Truthy_Never(v) == FALSE
Truthy(v) == v \notin {"None", "False"}

\* _wait_in_queue, lines 285-300, by what the page shows after the click:
\* "neither" indicator within 10 s, the "video", or only the queue indicator,
\* which is hidden again within the ceiling ("queue_hides") or not
\* ("queue_stays").  res is the value returned ("None" when the function falls
\* off its end) or "raises"; waited says whether the wait of line 292 was made.
WaitInQueue(seen) ==
    LET R(r, w) == [res |-> r, waited |-> w]
        either == WaitForSelector(seen # "neither")
        video == WaitForSelector(seen = "video")
        inq == WaitForSelector(seen \in {"queue_hides", "queue_stays"})
    IN IF either = "raises" THEN R("raises", FALSE)
       ELSE IF video = "raises" THEN R("raises", FALSE)
       ELSE IF Truthy(video) THEN R("True", FALSE)
       ELSE IF inq = "raises" THEN R("raises", FALSE)
       ELSE IF Truthy(inq)
         THEN (IF seen = "queue_hides" THEN R("True", TRUE) ELSE R("False", TRUE))
       ELSE R("None", FALSE)

\* lines 373-378: _click_enter_game, which re-raises its failure, then
\* `if not self._wait_in_queue(...): return False`, then return True
Enter ==
    /\ wpc = "click"
    /\ \E seen \in {"click_raises", "neither", "video", "queue_hides", "queue_stays"} :
         LET w == IF seen = "click_raises"
                    THEN [res |-> "raises", waited |-> FALSE]
                    ELSE WaitInQueue(seen)
             e == [NoEnd EXCEPT !.seen = seen, !.waited = w.waited]
         IN IF w.res = "raises"
              THEN FailWith(page, e)
              ELSE /\ Finish(Ret(IF Truthy(w.res) THEN "True" ELSE "False", wcall))
                   /\ startStat' = Ended(e)
    /\ handleUsers' = handleUsers \cup {"worker"}
    /\ UNCHANGED <<cfg, queue, puts, execLog, cliVars, wcall, wnest, wmode, wafter,
                   hVars, lsVars, reloads, retry, waitRes>>

\* ------------------------------------------- _saving_local_storage_task
LsAt(g, pc) == g \in 1..Len(lsThreads) /\ lsThreads[g].pc = pc
LsGoto(g, pc) == lsThreads' = [lsThreads EXCEPT ![g].pc = pc]

\* `while not self.stop_saving_ls_event.is_set()`, reached at the start and
\* after stop_saving_ls_event.wait(interval), and `if self.page and ...`, the
\* first read of self.page.  The thread ends when the event is set; with page
\* None it goes back to wait(interval).  A thread enters the loop body only
\* with an export left in the budget.
LsCheck(g) ==
    /\ LsAt(g, "check")
    /\ IF stop_saving_ls_event = "set"
         THEN LsGoto(g, "dead")
         ELSE /\ FreeExport
              /\ page # "None"
              /\ LsGoto(g, "is_closed")
    /\ UNCHANGED <<cfg, serVars, cliVars, wVars, hVars, stop_saving_ls_event,
                   saving_ls_thread, lsFile, tornDown, lifeVars, handleUsers>>

\* `... and not self.page.is_closed()`: a second read of self.page and a call of
\* is_closed() on it, on the persistence thread.  If the worker has set page to
\* None in between, the AttributeError is outside the try and ends the thread.
LsIsClosed(g) ==
    /\ LsAt(g, "is_closed")
    /\ LsGoto(g, CASE page = "None" -> "dead"
                   [] page = "closed" -> "check"
                   [] OTHER -> "submit")
    /\ handleUsers' = IF page = "None" THEN handleUsers ELSE handleUsers \cup {"persistence"}
    /\ UNCHANGED <<cfg, serVars, cliVars, wVars, hVars, stop_saving_ls_event,
                   saving_ls_thread, lsFile, tornDown, lifeVars>>

\* line 193: self.run_in_playwright_thread(self.page.evaluate, ...) up to the
\* wait; with page None by now the lookup raises inside the try
LsSubmit(g) ==
    /\ LsAt(g, "submit")
    /\ IF page = "None"
         THEN /\ LsGoto(g, "check")
              /\ UNCHANGED <<queue, calls, puts>>
         ELSE /\ Put(LsTid(g), "page.evaluate")
              /\ lsThreads' = [lsThreads EXCEPT ![g].pc = "wait",
                                               ![g].call = Len(calls) + 1]
    /\ UNCHANGED <<cfg, execLog, cliVars, wVars, hVars, stop_saving_ls_event,
                   saving_ls_thread, lsFile, tornDown, lifeVars, handleUsers>>

\* lines 194-196: the write of LOCAL_STORAGE_PATH
LsWrite(g) ==
    /\ LsAt(g, "write")
    /\ lsFile' = "saved"
    /\ lsThreads' = [lsThreads EXCEPT ![g].pc = "check", ![g].wrote = TRUE]
    /\ UNCHANGED <<cfg, serVars, cliVars, wVars, hVars, stop_saving_ls_event,
                   saving_ls_thread, tornDown, lifeVars, handleUsers>>

\* ------------------------------------------------------------------- Next
WorkerStep ==
    \/ WorkerGet \/ WorkerSetEvent \/ PageOp \/ BiMouse \/ Shot
    \/ StopSet \/ StopClose
    \/ CreateStart \/ CreateLaunch
    \/ LoginOuter \/ LoginInner \/ SaveAtEnter \/ Enter

ClientStep ==
    \E t \in Clients :
        \/ \E api \in {"start_game", "stop_game", "take_screenshot"} : ClientCall(t, api)
        \/ ClientMouseDown(t)
        \/ ClientPressMouse(t)
        \/ ClientPressMouseUp(t)

LsStep ==
    \E g \in 1..Len(lsThreads) :
        \/ LsCheck(g) \/ LsIsClosed(g) \/ LsSubmit(g) \/ LsWrite(g)

Next ==
    \/ ClientStep
    \/ WorkerStep
    \/ LsStep
    \/ \E th \in Threads : RunReturn(th)

Spec == Init /\ [][Next]_vars

\* The threads are scheduled by the operating system: a thread that can take a
\* step is not held back forever.  The clients are free to make no further call.
FairSpec ==
    /\ Spec
    /\ WF_vars(WorkerStep)
    /\ WF_vars(LsStep)
    /\ WF_vars(\E th \in Threads : RunReturn(th))

\* ------------------------------------------------------------------ claims
Live(i) == i \in 1..Len(calls) /\ calls[i].func # "collected"

\* the calls the worker has started and whose operation has neither returned nor raised
Executing == {i \in Range(execLog) : Live(i) /\ calls[i].out.kind = "none"}

\* C1: operations submitted from any number of threads are executed one at a
\* time, in the order in which they were put on the queue (call ids are given
\* in put order): at most one operation is executing, and the worker has
\* started the calls 1, 2, 3, ... in exactly that order.
C1_SerialFifo ==
    /\ Cardinality(Executing) <= 1
    /\ Executing \subseteq {wcall}
    /\ \A k \in 1..Len(execLog) : execLog[k] = k
    /\ \A k \in 1..Len(queue) : queue[k] = Len(execLog) + k

\* the worker is executing its second or a later operation while an operation
\* another thread submitted is waiting in the queue
C1_Witness ==
    /\ Len(execLog) >= 2
    /\ queue # <<>>
    /\ wcall # 0
    /\ calls[wcall].by # calls[Head(queue)].by
    /\ wcall \in Executing

\* C2: a call of run_in_playwright_thread made from inside an operation, on the
\* worker thread itself (BrowserInput.press_mouse hands mouse_down over as an
\* operation, and mouse_down calls run_in_playwright_thread), eventually returns.
C2_WorkerCallReturns == (wpc = "nested_wait") ~> (wpc # "nested_wait")

\* C3: the join of the persistence thread inside _stop_game always completes.
C3_JoinCompletes == (wpc = "sg_join") ~> (wpc # "sg_join")

Count(s, x) == Cardinality({k \in 1..Len(s) : s[k] = x})

\* C4: every submitted call is executed at most once and is not dropped (it is
\* in the queue until the worker takes it, and it is resolved once the worker
\* has gone on); its Event is set exactly once, after exactly one of
\* future["result"] and future["exception"] has been stored, and only after the
\* operation has run.
C4_ResolvedOnce ==
    \A i \in 1..Len(calls) :
        /\ Count(execLog, i) + Count(queue, i) = 1
        /\ Live(i) =>
             /\ calls[i].sets = (IF calls[i].event THEN 1 ELSE 0)
             /\ calls[i].event =>
                  /\ (calls[i].result # NoVal) # (calls[i].exception # NoVal)
                  /\ Count(execLog, i) = 1
                  /\ calls[i].out.kind # "none"
             /\ (Count(execLog, i) = 1 /\ i # wcall) => calls[i].event
        /\ ~Live(i) => Count(execLog, i) = 1

\* one call has been resolved with an exception and another with a result
C4_Witness ==
    \E i, j \in 1..Len(calls) :
        /\ Live(i) /\ calls[i].event /\ calls[i].exception # NoVal
        /\ Live(j) /\ calls[j].event /\ calls[j].result # NoVal

\* C5: what run_in_playwright_thread hands back is the outcome of the caller's
\* own operation: it raises exactly when that operation raised and returns the
\* value that operation returned otherwise, and the thread that waits on a
\* future is the thread that submitted it.
C5_OwnOutcome ==
    /\ \A i \in 1..Len(calls) :
         (Live(i) /\ calls[i].event) =>
            /\ calls[i].out.of = i
            /\ CallerOutcome(calls[i]) = calls[i].out
    /\ \A th \in Threads :
         WaitingOn(th) # 0 => calls[WaitingOn(th)].by = th
    /\ \A t1, t2 \in Threads :
         (WaitingOn(t1) # 0 /\ WaitingOn(t1) = WaitingOn(t2)) => t1 = t2

\* a client is about to be handed the exception its own operation raised while
\* another thread's call has been resolved with a value
C5_Witness ==
    \E t \in Clients : \E j \in 1..Len(calls) :
        /\ WaitingOn(t) # 0
        /\ calls[WaitingOn(t)].event
        /\ CallerOutcome(calls[WaitingOn(t)]).kind = "exc"
        /\ j # WaitingOn(t) /\ Live(j) /\ calls[j].event
        /\ CallerOutcome(calls[j]).kind = "ret"

\* C6: the worker loop never ends because an operation failed: the worker
\* thread is never dead, and from future["event"].set() it always goes back to
\* playwright_th_que.get(), whatever the operation did.
C6_WorkerSurvives ==
    /\ [](wpc # "dead")
    /\ [][(wpc = "set" /\ wpc' # "set") => (wpc' = "get" /\ calls'[wcall].event)]_vars

\* an operation raised, its call has been resolved with the exception, and an
\* operation submitted after it has been executed and resolved
C6_Witness ==
    \E i, j \in 1..Len(calls) :
        /\ i < j
        /\ Live(i) /\ calls[i].event /\ calls[i].out.kind = "exc"
        /\ Live(j) /\ calls[j].event
        /\ wpc = "get"

\* C7: once a teardown that had a persistence thread to join has returned, that
\* thread performs no further persistence write: no thread in tornDown takes
\* the step that writes LOCAL_STORAGE_PATH, and every such thread has ended.
C7_NoWriteAfterTeardown ==
    /\ [](\A g \in tornDown : LsAt(g, "dead"))
    /\ [][\A g \in 1..Len(lsThreads) :
            (LsAt(g, "write") /\ lsThreads'[g].pc # "write") => g \notin tornDown]_vars

\* a teardown has returned after joining a persistence thread that had written
\* the file while the browser was up
C7_Witness ==
    \E g \in tornDown :
        /\ lsThreads[g].wrote
        /\ lsFile = "saved"
        /\ page = "None"

\* C8: the worker thread is the only thread that ever invokes a method on a
\* playwright handle.
C8_OnlyWorker == handleUsers \subseteq {"worker"}

\* how the readiness wait of the latest _create_browser ended
WaitReady == waitRes = "ready"
WaitExhausted == waitRes = "exhausted"

\* C9 as stated: a wait that succeeds after k timeouts has seen exactly k page
\* reloads, and a wait that never succeeds ends after exactly MAX_RETRIES page
\* reloads.
C9_Original ==
    /\ WaitReady => reloads = retry
    /\ WaitExhausted => reloads = MAX_RETRIES

\* C9, amended: _refresh_page reloads the page once before the wait.  A wait
\* that times out k times (k <= MAX_RETRIES) and then succeeds has seen k
\* reloads of its own, k + 1 page reloads in all, and _start_game goes on to
\* the login check; a wait that never succeeds times out MAX_RETRIES + 1
\* times, has seen MAX_RETRIES reloads of its own, MAX_RETRIES + 1 in all, and
\* _start_game returns False.
C9_Reloads ==
    /\ WaitReady =>
         /\ retry <= MAX_RETRIES
         /\ reloads = retry + 1
         /\ wpc \in {"login_outer", "login_inner"}
    /\ WaitExhausted =>
         /\ retry = MAX_RETRIES + 1
         /\ reloads = MAX_RETRIES + 1
         /\ wpc = "set"
         /\ calls[wcall].out = Ret("False", wcall)

\* a wait has succeeded after two timeouts
C9_Witness == WaitReady /\ retry = 2 /\ reloads = 3

\* C10: with headless enabled and a login check that reports not-logged-in until
\* the user has logged in and logged-in from then on, _start_game relaunches
\* the browser exactly once into headful mode (the inner poll runs against a
\* headful browser) and exactly once back into headless mode; with headless
\* disabled it never relaunches for login.
C10_Escalation ==
    /\ ~cfg.headless => startStat.toHeadful = 0 /\ startStat.toHeadless = 0
    /\ wpc = "login_inner" => liveMode = "headful"
    /\ (cfg.headless /\ ~startStat.flapped) =>
         /\ startStat.rounds <= 1
         /\ startStat.toHeadful = startStat.rounds
         /\ startStat.toHeadless <= startStat.toHeadful
         /\ (startStat.toHeadless = 1 /\ wpc \in {"login_outer", "enter", "click"}) =>
               liveMode = "headless"
         /\ (startStat.rounds = 1 /\ wpc \in {"enter", "click"}) =>
               startStat.toHeadless = 1

\* a headless start has passed the login check after one relaunch each way
C10_Witness ==
    /\ cfg.headless /\ ~startStat.flapped
    /\ wpc = "enter"
    /\ startStat.toHeadful = 1 /\ startStat.toHeadless = 1
    /\ liveMode = "headless"

\* _start_game has returned (or raised) and its event is not set yet
StartEnded == wpc = "set" /\ calls[wcall].func = "_start_game"

\* C11: after the enter click, when the video is there at the check that
\* follows the first wait, _start_game returns True without making the
\* queue-ceiling wait; when only the queue indicator is there and it does not
\* disappear within the ceiling, _start_game returns False.
C11_QueueOutcome ==
    StartEnded =>
        /\ startStat.end.seen = "video" =>
               /\ calls[wcall].out = Ret("True", wcall)
               /\ ~startStat.end.waited
        /\ startStat.end.seen = "queue_stays" =>
               calls[wcall].out = Ret("False", wcall)

\* a _start_game that found the video has returned True
C11_Witness ==
    /\ StartEnded
    /\ startStat.end.seen = "video"
    /\ calls[wcall].out.val = "True"

\* _stop_game has returned and its event is not set yet
StopEnded == wpc = "set" /\ calls[wcall].func = "_stop_game"

\* C12: stop_game on a controller that is already stopped returns True and
\* changes no field of the controller.
C12_StopIdempotent ==
    (StopEnded /\ startStat.end.stopped) =>
        /\ calls[wcall].out = Ret("True", wcall)
        /\ ~startStat.end.changed

\* C13: _start_game never raises to its caller.  Whatever was raised inside it
\* reaches the except branch, which makes one attempt to dump the page and
\* returns False; a dump that fails (there may be no page) is swallowed and
\* the result is False all the same.
C13_StartNeverRaises ==
    /\ StartEnded =>
         /\ calls[wcall].out.kind = "ret"
         /\ calls[wcall].out.val \in {"True", "False"}
         /\ startStat.end.raised =>
               /\ calls[wcall].out = Ret("False", wcall)
               /\ startStat.end.dump \in {"saved", "swallowed"}
               /\ page # "open" => startStat.end.dump = "swallowed"
         /\ ~startStat.end.raised => startStat.end.dump = "none"
    /\ \A i \in 1..Len(calls) :
         (Live(i) /\ calls[i].func = "_start_game" /\ calls[i].event) =>
             CallerOutcome(calls[i]).kind = "ret"

\* _start_game failed with no page to dump and has returned False
C13_Witness ==
    /\ StartEnded
    /\ startStat.end.raised
    /\ page = "None"
    /\ startStat.end.dump = "swallowed"
    /\ calls[wcall].out = Ret("False", wcall)

\* C14: within one _start_game the browser goes from headless to headful and
\* back at most once, whatever the login checks report.
C14_OneOscillation ==
    /\ startStat.toHeadful <= 1
    /\ startStat.toHeadless <= 1

\* C15: a login check that reports None (neither marker found) only has the
\* check repeated; the relaunch into headful mode is begun only after a check
\* that reported False.
C15_UnknownOnlyRetries ==
    (wpc = "sg_set" /\ wafter = "login_inner") => startStat.last = "False"

\* C16: when only the queue indicator shows after the enter click and it goes
\* away within the ceiling, _wait_in_queue waits for it to go and _start_game
\* returns True.
C16_QueueThenReady ==
    (StartEnded /\ startStat.end.seen = "queue_hides")
        => /\ startStat.end.waited
           /\ calls[wcall].out = Ret("True", wcall)

\* C17: when _stop_game returns, playwright, browser, context, page, client and
\* hwnd are all None, also when playwright.stop() raised.
C17_StoppedMeansNull ==
    StopEnded => Stopped

\* C18: _start_game terminates: in particular the poll for the user's login,
\* once begun, is left after finitely many checks even when no check reports
\* True.
C18_LoginPollEnds ==
    (wpc = "login_inner") ~> (wpc # "login_inner")

\* C19: with browser_cookies_enable on, _save_cookies has run once before each
\* relaunch back to headless and once more before the enter click, each time
\* after a login check that reported True; the enter click is reached only
\* when the most recent check reported True; with browser_cookies_enable off
\* _start_game never calls _save_cookies.
C19_SaveBeforeUse ==
    /\ ~startStat.cookies => startStat.cookieSaves = 0
    /\ startStat.cookies =>
           startStat.cookieSaves =
               startStat.toHeadless + (IF wpc = "click" THEN 1 ELSE 0)
    /\ wpc \in {"enter", "click"} => startStat.last = "True"
    /\ (wpc = "sg_set" /\ wafter = "login_outer" /\ startStat.toHeadless > 0)
           => startStat.last = "True"

C19_Witness ==
    /\ wpc = "click"
    /\ startStat.cookies
    /\ startStat.toHeadless = 1
    /\ startStat.cookieSaves = 2

\* C20: get_window_handle never returns the window handle of a browser that
\* has been torn down: once _create_browser has returned inside _start_game,
\* the handle it got at line 144, which get_window_handle goes on returning,
\* is not the handle cached for the previous browser, whether or not
\* playwright.stop() raised in the teardown.
C20_NoStaleHandle ==
    (wpc \in {"login_outer", "login_inner"} /\ page = "open")
        => HwndReturned(page, hwnd, hwnd) # "stale"

\* C21: whenever _start_game returns True, and already when it is about to
\* save the cookies and click enter, the live browser was launched in the
\* configured mode: headless exactly when browser_headless_enable is on,
\* however many relaunches the login loop made.
RequestedMode == IF cfg.headless THEN "headless" ELSE "headful"

C21_ModeOnSuccess ==
    /\ wpc \in {"enter", "click"} => liveMode = RequestedMode
    /\ (StartEnded /\ calls[wcall].out = Ret("True", wcall))
           => liveMode = RequestedMode

C21_Witness ==
    /\ StartEnded
    /\ calls[wcall].out = Ret("True", wcall)
    /\ cfg.headless
    /\ liveMode = "headless"

\* C22: at most one persistence thread is alive at any time, and it is the one
\* self.saving_ls_thread refers to; when _create_browser is about to start a
\* thread, after _stop_game has set the event and joined, none is alive.
C22_OneLsThread ==
    /\ Cardinality({g \in 1..Len(lsThreads) : LsAlive(g)}) <= 1
    /\ \A g \in 1..Len(lsThreads) : LsAlive(g) => g = saving_ls_thread
    /\ wpc = "cb_start" => \A g \in 1..Len(lsThreads) : ~LsAlive(g)

C22_Witness ==
    /\ cfg.persistent
    /\ wpc = "login_inner"
    /\ startStat.toHeadful = 1
    /\ LsAlive(saving_ls_thread)

=============================================================================
